---- MODULE Spec2Model ----
(***************************************************************************)
(* Model of the wallet gains service: the HTTP controller getWalletGains   *)
(* and SolanaWalletTracker (calculateGains, _validateWalletAddress,        *)
(* _isTradableMemeToken, _getTokenPrice, _trackCostBasis) with its three   *)
(* TTL caches and the cost-basis file.                                     *)
(*                                                                         *)
(* A request is a small process.  Everything the JavaScript runs between   *)
(* two awaits of external I/O is one action: the turn of the event loop    *)
(* that the I/O's answer starts, with all the continuations it settles.    *)
(* The answers of the holdings RPC and of the price sources are the        *)
(* parameters of the action that receives them.  The three eligibility     *)
(* detectors are async methods that do no I/O, so a call of                *)
(* _isTradableMemeToken, its result and its cache write belong to one turn;*)
(* what the detectors answer is the state sig: false for the three        *)
(* detectors as written, and true, false or a rejection for the detectors  *)
(* that take their place.  Inside that turn the await of Promise.all still *)
(* yields to the microtask queue: calls started in the same synchronous    *)
(* block all read the cache before any of them writes it.  The holdings    *)
(* filter does this inside one action; a direct call does it in two steps, *)
(* between which other calls can start and a call answered from the cache  *)
(* can return to its caller, who may call again.                           *)
(*                                                                         *)
(* The file system answers operation by operation.  fs.readFile is the     *)
(* open (which fails for a missing file), the fstat that gives the size of *)
(* the file, the read of at most that many bytes (of all the text when the *)
(* size was 0) and the close, after which the promise resolves.            *)
(* fs.writeFile is the open that creates or truncates the file, the write  *)
(* of the text, which may fail, and the close, after which the promise     *)
(* settles.  The store is changed by these steps only.                     *)
(***************************************************************************)
EXTENDS Integers, Sequences, FiniteSets, TLC

VARIABLES
    now,                 \* wall clock, seconds
    srcAns,              \* external data: what each price source answers per mint
    sig,                 \* external data: what each eligibility signal answers per mint
    costFile,            \* cost-basis.json: [status, data, writable, size];
                         \* status is absent | corrupt (unparseable text) |
                         \* empty (no text: a file just created or truncated) |
                         \* null | ok; size is the length of the text in bytes
    priceCache,          \* this.priceCache
    tokenMetadataCache,  \* this.tokenMetadataCache
    transactionCache,    \* this.transactionCache
    pc,                  \* per request: idle | fetching | running | responded
    reqAddr,             \* per request: the :address parameter
    holdings,            \* per request: tokenAccounts.value
    eligTasks,           \* per request, per holding: the filter callback's call
    gainTasks,           \* per request, per holding: the map callback's promise
    outcome,             \* per request: what the controller handed to res / next
    invoked,             \* per request: external collaborators invoked so far
    logs,                \* per request: logger events emitted so far
    startVer,            \* per request: extVer when the request arrived
    calls,               \* per caller: a direct call of one tracker method
    prev,                \* history: the previous completed request
    extVer               \* history: number of changes of the external data

envVars   == <<now, srcAns, sig, costFile, extVer>>
cacheVars == <<priceCache, tokenMetadataCache, transactionCache>>
reqVars   == <<pc, reqAddr, holdings, eligTasks, gainTasks, outcome, invoked, logs,
               startVer>>
vars      == <<now, srcAns, sig, costFile, priceCache, tokenMetadataCache,
               transactionCache, pc, reqAddr, holdings, eligTasks, gainTasks,
               outcome, invoked, logs, startVer, calls, prev, extVer>>

----------------------------------------------------------------------------
(* Bounds of the model *)

MaxHoldings == 2
MaxTime == 600
MaxMetaTime == 7200
MaxExtChanges == 1
MaxCacheTime == 3900

(* Program constants *)

MinAddressLength == 32
PriceTTL == 300
MetadataTTL == 3600
TransactionsTTL == 600
StatusOk == 200
StatusBadRequest == 400

----------------------------------------------------------------------------
(* Domains *)

Reqs == {1, 2}
Callers == {1, 2}
Mints == {"A", "B"}
Sources == 1..3
SourceNames == <<"CoinGecko", "DexScreener", "Raydium">>
Signals == 1..3

\* An address as the controller and PublicKey see it: its text, its length and
\* whether it base58-decodes to 32 bytes (which needs 32 to 44 characters).
AddrEmpty   == [text |-> "", len |-> 0, decodes |-> FALSE]
AddrShort   == [text |-> "short", len |-> 31, decodes |-> FALSE]
AddrLongBad == [text |-> "long0OIl", len |-> 32, decodes |-> FALSE]
AddrWallet  == [text |-> "wallet1", len |-> 44, decodes |-> TRUE]
Addresses == {AddrEmpty, AddrShort, AddrLongBad, AddrWallet}

Throws == [throws |-> TRUE, price |-> 0]
Quote(p) == [throws |-> FALSE, price |-> p]

RECURSIVE SeqsUpTo(_, _)
SeqsUpTo(S, n) ==
    IF n = 0 THEN {<<>>}
    ELSE LET shorter == SeqsUpTo(S, n - 1)
         IN  shorter \cup {Append(q, x) : q \in {s \in shorter : Len(s) = n - 1}, x \in S}

Holding(m, a) == [mint |-> m, uiAmount |-> a]
HoldingLists(hs) == SeqsUpTo(hs, MaxHoldings)

Range(f) == {f[x] : x \in DOMAIN f}

----------------------------------------------------------------------------
(* NodeCache: an entry lives until its expiry time has passed *)

NoPrice == [has |-> FALSE, v |-> 0, t |-> 0]
NoMeta  == [has |-> FALSE, v |-> FALSE, t |-> 0]

Live(e) == e.has /\ now <= e.t

CacheGet(cache, k) == [hit |-> Live(cache[k]), v |-> cache[k].v]

\* a get of an expired key deletes it
CachePurge(cache, ks, none) ==
    [k \in DOMAIN cache |->
        IF k \in ks /\ cache[k].has /\ ~Live(cache[k]) THEN none ELSE cache[k]]

\* mutant: a set on a live entry keeps the entry's expiry time
CacheSetKeepsWindow(cache, k, v, ttl) ==
    [cache EXCEPT ![k] = [has |-> TRUE, v |-> v,
                          t |-> IF Live(cache[k]) THEN cache[k].t ELSE now + ttl]]

CacheSet(cache, k, v, ttl) ==
    [cache EXCEPT ![k] = [has |-> TRUE, v |-> v, t |-> now + ttl]]

----------------------------------------------------------------------------
(* cost-basis.json *)

CostKey(wallet, mint) == wallet \o "_" \o mint

NoData == [k \in {} |-> 0]

\* the properties every plain object inherits under a name that holds a "_"
InheritedKeys == {"__proto__", "__defineGetter__", "__defineSetter__",
                  "__lookupGetter__", "__lookupSetter__"}

\* stands for the object or function such a property holds: truthy, not a number
InheritedProperty == -1

\* costBasisData[key] || 0 on the parsed object
CostLookup(data, key) ==
    IF key \in DOMAIN data THEN data[key]
    ELSE IF key \in InheritedKeys THEN InheritedProperty
    ELSE 0

\* what readFile has read so far: nothing
NoText == [status |-> "none", data |-> NoData]

\* the length of JSON.stringify({})
EmptyStoreSize == 2

EmptyFile(f) == [f EXCEPT !.status = "ok", !.data = NoData, !.size = EmptyStoreSize]

\* what readFile's read gets from the file f when fstat gave the size n: the
\* text up to the end of the file when n is 0 or the text is no longer than n,
\* else the first n bytes, which no parser accepts
TextRead(f, n) ==
    IF n = 0 \/ f.size <= n THEN [status |-> f.status, data |-> f.data]
    ELSE [status |-> "corrupt", data |-> NoData]

----------------------------------------------------------------------------
(* Pure parts of the handlers *)

\* mutant: the length check off by one
RejectedBelow31(a) == a.text = "" \/ a.len < MinAddressLength - 1

\* controller: if (!address || address.length < 32)
RejectedByController(a) == a.text = "" \/ a.len < MinAddressLength

\* mutant: the PublicKey constructor never throws
AcceptsAnyAddress(a) == TRUE

\* new PublicKey(walletAddress) succeeds
ValidateWalletAddress(a) == a.decodes

InvalidAddressMessage == "Invalid wallet address"
InvalidKeyMessage == "Invalid Solana wallet address"
FailurePrefix == "Wallet gains calculation failed: "

\* mutant: one signal is enough
AtLeastOneSignal(sigs) == Cardinality({s \in Signals : sigs[s] = "true"}) >= 1

\* signals.filter(Boolean).length >= 2
IsTradable(sigs) == Cardinality({s \in Signals : sigs[s] = "true"}) >= 2

SignalThrew(sigs) == \E s \in Signals : sigs[s] = "throws"

\* mutant: a price of 0 counts as found
AcceptsNonNegative(ans) == ~ans.throws /\ ans.price >= 0

\* if (price > 0)
Accepts(ans) == ~ans.throws /\ ans.price > 0

\* mutant: the gain leaves the cost basis out
GainResultNoCost(h, price, cost) ==
    [token |-> h.mint, currentPrice |-> price, amount |-> h.uiAmount,
     costBasis |-> cost, totalValue |-> price * h.uiAmount,
     unrealizedGain |-> price * h.uiAmount]

\* the object the map callback returns
GainResult(h, price, cost) ==
    [token |-> h.mint, currentPrice |-> price, amount |-> h.uiAmount,
     costBasis |-> cost, totalValue |-> price * h.uiAmount,
     unrealizedGain |-> (price * h.uiAmount) - cost]

\* mutant: the final filter keeps a zero total value
ReportedNonNegative(rec) == rec.totalValue >= 0

\* gainResults.filter(result => result.totalValue > 0)
Reported(rec) == rec.totalValue > 0

RECURSIVE FilterSeq(_, _)
FilterSeq(s, i) ==
    IF i > Len(s) THEN <<>>
    ELSE IF Reported(s[i]) THEN <<s[i]>> \o FilterSeq(s, i + 1)
    ELSE FilterSeq(s, i + 1)

\* tokenAccounts.value.filter(async (account) => ...): the callback's promise is
\* what filter tests, and a promise is truthy
FilterKeeps(eligTask) == TRUE

----------------------------------------------------------------------------
(* Task records *)

NoOutcome == [kind |-> "none", status |-> 0, success |-> FALSE,
              message |-> "", data |-> <<>>]
NoPrev == [valid |-> FALSE, addr |-> AddrEmpty, holdings |-> <<>>,
           data |-> <<>>, hits |-> <<>>, prices |-> <<>>, ver |-> 0]

\* what the three detectors answer for a mint
SignalsOf(mint) == [s \in Signals |-> sig[s][mint]]

\* _isTradableMemeToken(mint) up to its await of Promise.all: the cache get
\* and, on a miss, the three detector calls, which answer as they are called
EligStart(mint) ==
    LET got == CacheGet(tokenMetadataCache, mint)
    IN  IF got.hit
        THEN [pc |-> "done", ret |-> got.v, hit |-> TRUE, evals |-> 0,
              seen |-> <<>>, threw |-> FALSE]
        ELSE [pc |-> "wait", ret |-> FALSE, hit |-> FALSE, evals |-> Cardinality(Signals),
              seen |-> SignalsOf(mint), threw |-> FALSE]

\* _isTradableMemeToken after Promise.all of the three signals
EligFinish(task, sigs) ==
    IF SignalThrew(sigs)
    THEN [task EXCEPT !.pc = "done", !.seen = sigs, !.ret = FALSE, !.threw = TRUE]
    ELSE [task EXCEPT !.pc = "done", !.seen = sigs, !.ret = IsTradable(sigs)]

\* the whole call: the detectors do no I/O, so Promise.all settles in the turn
\* of the call
EligCall(mint) ==
    IF EligStart(mint).pc = "done" THEN EligStart(mint)
    ELSE EligFinish(EligStart(mint), EligStart(mint).seen)

\* mutant: the false returned after a raising signal is cached too
CachesFailure(cache, mint, sigs) ==
    CacheSet(cache, mint, ~SignalThrew(sigs) /\ IsTradable(sigs), MetadataTTL)

\* this.tokenMetadataCache.set(mintAddress, isTradable), skipped by a throw
MetadataCacheAfter(cache, mint, sigs) ==
    IF SignalThrew(sigs) THEN cache
    ELSE CacheSet(cache, mint, IsTradable(sigs), MetadataTTL)

\* the metadata cache after the calls et made for the holdings hs: each call
\* that missed the cache sets its result, in the order of the holdings
RECURSIVE MetadataCacheAfterCalls(_, _, _, _)
MetadataCacheAfterCalls(cache, hs, et, i) ==
    IF i > Len(hs) THEN cache
    ELSE MetadataCacheAfterCalls(
            IF et[i].hit THEN cache ELSE MetadataCacheAfter(cache, hs[i].mint, et[i].seen),
            hs, et, i + 1)

\* the map callback up to its first await of external I/O: _getTokenPrice's cache
\* check, then either the first source's request or _trackCostBasis's readFile
GainStart(mint) ==
    LET got == CacheGet(priceCache, mint)
    IN  IF got.hit /\ got.v # 0
        THEN [pc |-> "read", src |-> 0, seen |-> <<>>, hit |-> TRUE,
              price |-> got.v, cost |-> 0, found |-> "none", wrote |-> FALSE,
              text |-> NoText, size |-> 0]
        ELSE [pc |-> "src", src |-> 1, seen |-> <<>>, hit |-> FALSE,
              price |-> 0, cost |-> 0, found |-> "none", wrote |-> FALSE,
              text |-> NoText, size |-> 0]

\* _trackCostBasis(wallet, mint) up to its await of readFile: the open is asked for
CostStart ==
    [pc |-> "read", src |-> 0, seen |-> <<>>, hit |-> FALSE,
     price |-> 0, cost |-> 0, found |-> "none", wrote |-> FALSE, text |-> NoText, size |-> 0]

NoCall == [op |-> "none", wallet |-> "", mint |-> "", task |-> <<>>, ord |-> 0]

\* a direct _isTradableMemeToken call stands at its await of Promise.all
Awaiting(c) == calls[c].op = "eligible" /\ calls[c].task.pc = "wait"

\* no continuation is waiting in the microtask queue: the answers of I/O and
\* the timers run only then
Quiet == \A c \in Callers : ~Awaiting(c)

\* every promise handed to Promise.all has resolved
Completed(gt) == \A i \in DOMAIN gt : gt[i].pc \in {"done", "skipped"}

AllGainsDone(r) == \A i \in DOMAIN gainTasks[r] : gainTasks[r][i].pc = "done"
AllEligDone(r) == \A i \in DOMAIN eligTasks[r] : eligTasks[r][i].pc = "done"

GainResults(r) ==
    [i \in DOMAIN gainTasks[r] |->
        GainResult(holdings[r][i], gainTasks[r][i].price, gainTasks[r][i].cost)]

----------------------------------------------------------------------------
(* Initial state: the tracker just constructed, no request in flight *)

InitCaches ==
    /\ priceCache = [m \in Mints |-> NoPrice]
    /\ tokenMetadataCache = [m \in Mints |-> NoMeta]
    /\ transactionCache = [m \in Mints |-> NoMeta]

InitReqs ==
    /\ pc = [r \in Reqs |-> "idle"]
    /\ reqAddr = [r \in Reqs |-> AddrEmpty]
    /\ holdings = [r \in Reqs |-> <<>>]
    /\ eligTasks = [r \in Reqs |-> <<>>]
    /\ gainTasks = [r \in Reqs |-> <<>>]
    /\ outcome = [r \in Reqs |-> NoOutcome]
    /\ invoked = [r \in Reqs |-> {}]
    /\ logs = [r \in Reqs |-> {}]
    /\ startVer = [r \in Reqs |-> 0]
    /\ calls = [c \in Callers |-> NoCall]
    /\ prev = NoPrev

\* every source unreachable
InitSources ==
    /\ now = 0
    /\ srcAns = [s \in Sources |-> [m \in Mints |-> Throws]]
    /\ extVer = 0

\* the three detectors as written return false
WrittenDetectors == [s \in Signals |-> "false"]

InitExternal ==
    /\ InitSources
    /\ sig = [s \in Signals |-> [m \in Mints |-> WrittenDetectors[s]]]

\* the file holds {"wallet1_A":5}
RecordedFile ==
    [status |-> "ok", data |-> (CostKey(AddrWallet.text, "A") :> 5), writable |-> TRUE,
     size |-> 15]

\* the file holds the JSON text null
NullFile == [status |-> "null", data |-> NoData, writable |-> TRUE, size |-> 4]

\* no file; w says whether one can be created
AbsentFile(w) == [status |-> "absent", data |-> NoData, writable |-> w, size |-> 0]

\* the file holds n bytes that are not JSON: the text { or a longer one
CorruptFile(w, n) == [status |-> "corrupt", data |-> NoData, writable |-> w, size |-> n]

StoreStates ==
    {AbsentFile(w) : w \in BOOLEAN}
    \cup {CorruptFile(w, n) : w \in BOOLEAN, n \in {1, 3}}
    \cup {EmptyFile(AbsentFile(TRUE)), [AbsentFile(TRUE) EXCEPT !.status = "empty"]}
    \cup {RecordedFile, NullFile}

MainStores == {AbsentFile(FALSE), CorruptFile(TRUE, 1), RecordedFile, NullFile}

\* what the detectors answer for one mint: as written, two of three true, and
\* two true with the third rejecting
MainSignals ==
    {WrittenDetectors,
     [s \in Signals |-> IF s = 3 THEN "false" ELSE "true"],
     [s \in Signals |-> IF s = 3 THEN "throws" ELSE "true"]}

\* the unit specifications start from a store that already holds a record
InitUnit ==
    /\ InitCaches
    /\ InitReqs
    /\ InitExternal
    /\ costFile = RecordedFile

\* the detectors of mint A answer as written, those of mint B anything
Init ==
    /\ InitCaches
    /\ InitReqs
    /\ InitSources
    /\ \E sg \in MainSignals :
            sig = [s \in Signals |-> [m \in Mints |->
                        IF m = "B" THEN sg[s] ELSE WrittenDetectors[s]]]
    /\ costFile \in MainStores

----------------------------------------------------------------------------
(* calculateGains after Promise.all, and the controller's response: they    *)
(* run in the turn that resolves the last promise of the list               *)

RECURSIVE CollectResults(_, _, _)
CollectResults(hs, gt, i) ==
    IF i > Len(gt) THEN <<>>
    ELSE IF gt[i].pc = "skipped" THEN CollectResults(hs, gt, i + 1)
    ELSE <<GainResult(hs[i], gt[i].price, gt[i].cost)>> \o CollectResults(hs, gt, i + 1)

\* the end of a turn of request r that leaves it with the gain tasks gt and
\* the log lg: if the list is complete, logger.info, the final filter and
\* res.status(200).json follow at once
Respond(r, hs, gt, lg) ==
    IF Completed(gt)
    THEN /\ outcome' = [outcome EXCEPT ![r] =
                [kind |-> "json", status |-> StatusOk, success |-> TRUE,
                 message |-> "", data |-> FilterSeq(CollectResults(hs, gt, 1), 1)]]
         /\ logs' = [logs EXCEPT ![r] = lg \cup {"info: Calculated gains"}]
         /\ pc' = [pc EXCEPT ![r] = "responded"]
    ELSE /\ outcome' = outcome
         /\ logs' = [logs EXCEPT ![r] = lg]
         /\ pc' = [pc EXCEPT ![r] = "running"]

----------------------------------------------------------------------------
(* getWalletGains: the controller, and calculateGains up to the holdings RPC *)

GetWalletGains(r, a) ==
    /\ Quiet
    /\ pc[r] = "idle"
    /\ reqAddr' = [reqAddr EXCEPT ![r] = a]
    /\ startVer' = [startVer EXCEPT ![r] = extVer]
    /\ IF RejectedByController(a)
       THEN /\ outcome' = [outcome EXCEPT ![r] =
                    [kind |-> "json", status |-> StatusBadRequest, success |-> FALSE,
                     message |-> InvalidAddressMessage, data |-> <<>>]]
            /\ pc' = [pc EXCEPT ![r] = "responded"]
            /\ UNCHANGED <<invoked, logs>>
       ELSE IF ~ValidateWalletAddress(a)
       THEN /\ outcome' = [outcome EXCEPT ![r] =
                    [kind |-> "next", status |-> 0, success |-> FALSE,
                     message |-> FailurePrefix \o InvalidKeyMessage, data |-> <<>>]]
            /\ logs' = [logs EXCEPT ![r] =
                    {"error: Invalid wallet address", "error: Gains calculation error"}]
            /\ pc' = [pc EXCEPT ![r] = "responded"]
            /\ UNCHANGED invoked
       ELSE /\ invoked' = [invoked EXCEPT ![r] = {"holdings"}]
            /\ pc' = [pc EXCEPT ![r] = "fetching"]
            /\ UNCHANGED <<outcome, logs>>
    /\ UNCHANGED <<envVars, cacheVars, holdings, eligTasks, gainTasks, prev, calls>>

\* getParsedTokenAccountsByOwner rejected
HoldingsFetchFailed(r, err) ==
    /\ Quiet
    /\ pc[r] = "fetching"
    /\ outcome' = [outcome EXCEPT ![r] =
            [kind |-> "next", status |-> 0, success |-> FALSE,
             message |-> FailurePrefix \o err, data |-> <<>>]]
    /\ logs' = [logs EXCEPT ![r] = @ \cup {"error: Gains calculation error"}]
    /\ invoked' = [invoked EXCEPT ![r] = @ \cup {"holdings rejected"}]
    /\ pc' = [pc EXCEPT ![r] = "responded"]
    /\ UNCHANGED <<envVars, cacheVars, reqAddr, holdings, eligTasks, gainTasks,
                   startVer, prev, calls>>

\* getParsedTokenAccountsByOwner resolved: filter makes one eligibility call
\* per holding, each reading the metadata cache as the turn found it; map
\* starts one gain computation per holding kept; then the eligibility calls
\* that missed the cache get their signals and set their result; an empty
\* list is answered at once
HoldingsFetched(r, hs) ==
    /\ Quiet
    /\ pc[r] = "fetching"
    /\ LET n == Len(hs)
           mints == {hs[i].mint : i \in 1..n}
           et == [i \in 1..n |-> EligCall(hs[i].mint)]
           kept == {i \in 1..n : FilterKeeps(et[i])}
           gt == [i \in 1..n |->
                    IF i \in kept THEN GainStart(hs[i].mint)
                    ELSE [GainStart(hs[i].mint) EXCEPT !.pc = "skipped"]]
           lg == logs[r] \cup (IF \E i \in 1..n : et[i].threw
                               THEN {"warn: Token detection error"} ELSE {})
       IN  /\ holdings' = [holdings EXCEPT ![r] = hs]
           /\ eligTasks' = [eligTasks EXCEPT ![r] = et]
           /\ gainTasks' = [gainTasks EXCEPT ![r] = gt]
           /\ tokenMetadataCache' =
                    MetadataCacheAfterCalls(CachePurge(tokenMetadataCache, mints, NoMeta),
                                            hs, et, 1)
           /\ priceCache' = CachePurge(priceCache, {hs[i].mint : i \in kept}, NoPrice)
           /\ invoked' = [invoked EXCEPT ![r] = @
                    \cup (IF \E i \in 1..n : ~et[i].hit THEN {"signal"} ELSE {})
                    \cup (IF \E i \in kept : gt[i].pc = "src" THEN {"source"} ELSE {})
                    \cup (IF \E i \in kept : gt[i].pc = "read" THEN {"store"} ELSE {})]
           /\ Respond(r, hs, gt, lg)
    /\ UNCHANGED <<envVars, transactionCache, reqAddr, startVer, prev, calls>>

----------------------------------------------------------------------------
(* _getTokenPrice: one price source answered *)

\* mutant: the loop caches an accepted price but goes on instead of returning it
SourceStepNoReturn(task, ans) ==
    IF task.src < Len(SourceNames)
    THEN [task EXCEPT !.src = @ + 1, !.seen = Append(@, ans)]
    ELSE [task EXCEPT !.pc = "read", !.seen = Append(@, ans), !.price = 0]

\* mutant: after a failed source the loop goes straight to the last one
SourceStepSkips(task, ans) ==
    IF Accepts(ans)
    THEN [task EXCEPT !.pc = "read", !.seen = Append(@, ans), !.price = ans.price]
    ELSE IF task.src < Len(SourceNames)
    THEN [task EXCEPT !.src = Len(SourceNames), !.seen = Append(@, ans)]
    ELSE [task EXCEPT !.pc = "read", !.seen = Append(@, ans), !.price = 0]

\* one turn of for (const priceSource of priceSources): the awaited source
\* answered; an accepted price is returned, else the next source is awaited
SourceStep(task, ans) ==
    IF Accepts(ans)
    THEN [task EXCEPT !.pc = "read", !.seen = Append(@, ans), !.price = ans.price]
    ELSE IF task.src < Len(SourceNames)
    THEN [task EXCEPT !.src = @ + 1, !.seen = Append(@, ans)]
    ELSE [task EXCEPT !.pc = "read", !.seen = Append(@, ans), !.price = 0]

\* mutant: the found price is returned but not cached
NeverCaches(mint, ans) == priceCache

\* mutant: a set adds the price to the entry it finds
PriceCacheAccumulates(mint, ans) ==
    IF Accepts(ans)
    THEN CacheSet(priceCache, mint,
                  (IF priceCache[mint].has THEN priceCache[mint].v ELSE 0) + ans.price,
                  PriceTTL)
    ELSE priceCache

\* this.priceCache.set(mintAddress, price), only for an accepted price
PriceCacheAfter(mint, ans) ==
    IF Accepts(ans) THEN CacheSet(priceCache, mint, ans.price, PriceTTL)
    ELSE priceCache

\* the call returns into the map callback, which calls _trackCostBasis and
\* waits for readFile
PriceSourceReplied(r, i, ans) ==
    /\ Quiet
    /\ pc[r] = "running"
    /\ i \in DOMAIN gainTasks[r]
    /\ gainTasks[r][i].pc = "src"
    /\ gainTasks' = [gainTasks EXCEPT ![r][i] = SourceStep(@, ans)]
    /\ priceCache' = PriceCacheAfter(holdings[r][i].mint, ans)
    /\ logs' = [logs EXCEPT ![r] = @ \cup
            (IF ans.throws THEN {"warn: Price fetch error"} ELSE {})]
    /\ invoked' = [invoked EXCEPT ![r] = @ \cup
            (IF SourceStep(gainTasks[r][i], ans).pc = "read" THEN {"store"} ELSE {})]
    /\ UNCHANGED <<envVars, tokenMetadataCache, transactionCache, pc, reqAddr,
                   holdings, eligTasks, outcome, startVer, prev, calls>>

----------------------------------------------------------------------------
(* _trackCostBasis: readFile and JSON.parse; if either threw, writeFile;    *)
(* then the lookup.  One action per answer of the file system; the action   *)
(* that settles the awaited promise carries the code that follows the await *)

\* one step of holding i's _trackCostBasis inside request r: the task and the
\* key it asks for, the task after the step, what the step logs
CostStep(r, i, at, after, lg) ==
    /\ Quiet
    /\ pc[r] = "running"
    /\ i \in DOMAIN gainTasks[r]
    /\ gainTasks[r][i].pc \in at
    /\ LET gt == [gainTasks[r] EXCEPT ![i] = after]
       IN  /\ gainTasks' = [gainTasks EXCEPT ![r] = gt]
           /\ Respond(r, holdings[r], gt, logs[r] \cup lg)
    /\ UNCHANGED <<now, srcAns, sig, extVer, cacheVars, reqAddr, holdings,
                   eligTasks, invoked, startVer, prev, calls>>

RequestKey(r, i) == CostKey(reqAddr[r].text, holdings[r][i].mint)

\* readFile's open: a missing file rejects the promise, and the inner catch
\* calls writeFile; otherwise the file is open for the read
CostReadOpen(task) ==
    IF costFile.status = "absent"
    THEN [task EXCEPT !.pc = "write", !.found = "absent"]
    ELSE [task EXCEPT !.pc = "opened"]

ReadFileOpened(r, i) ==
    /\ CostStep(r, i, {"read"}, CostReadOpen(gainTasks[r][i]), {})
    /\ UNCHANGED costFile

\* readFile's fstat: the size the file has at this moment
CostReadSize(task) == [task EXCEPT !.pc = "sized", !.size = costFile.size]

ReadFileStat(r, i) ==
    /\ CostStep(r, i, {"opened"}, CostReadSize(gainTasks[r][i]), {})
    /\ UNCHANGED costFile

\* readFile's read: of the text the file holds at this moment, as much as
\* the size fstat gave allows
CostReadText(task) == [task EXCEPT !.pc = "closing", !.text = TextRead(costFile, task.size)]

ReadFileRead(r, i) ==
    /\ CostStep(r, i, {"sized"}, CostReadText(gainTasks[r][i]), {})
    /\ UNCHANGED costFile

\* readFile resolved with the text it read: a parsed object gives the lookup;
\* the parsed value null makes the lookup throw into the outer catch;
\* unparseable text goes on to writeFile
CostRead(task, key) ==
    IF task.text.status = "ok"
    THEN [task EXCEPT !.pc = "done", !.found = "ok",
                      !.cost = CostLookup(task.text.data, key)]
    ELSE IF task.text.status = "null"
    THEN [task EXCEPT !.pc = "done", !.found = "null", !.cost = 0]
    ELSE [task EXCEPT !.pc = "write", !.found = task.text.status]

\* what the outer catch logs
CostReadLog(task) ==
    IF task.text.status = "null" THEN {"error: Cost basis tracking error"} ELSE {}

CostBasisRead(r, i) ==
    /\ CostStep(r, i, {"closing"}, CostRead(gainTasks[r][i], RequestKey(r, i)),
                CostReadLog(gainTasks[r][i]))
    /\ UNCHANGED costFile

\* writeFile's open: the file exists and has no text, or the open fails and
\* the outer catch returns 0
CostOpen(task) ==
    IF costFile.writable THEN [task EXCEPT !.pc = "writing"]
    ELSE [task EXCEPT !.pc = "done", !.cost = 0, !.wrote = FALSE]

FileAfterOpen(f) ==
    IF f.writable THEN [f EXCEPT !.status = "empty", !.data = NoData, !.size = 0] ELSE f

CostOpenLog(f) == IF f.writable THEN {} ELSE {"error: Cost basis tracking error"}

CostBasisOpened(r, i) ==
    /\ CostStep(r, i, {"write"}, CostOpen(gainTasks[r][i]), CostOpenLog(costFile))
    /\ costFile' = FileAfterOpen(costFile)

\* writeFile's write of JSON.stringify({}): the text is in the file, or the
\* write failed and the file is as the open left it
FileAfterWrite(f, ok) == IF ok THEN EmptyFile(f) ELSE f

CostWriteText(task, ok) == [task EXCEPT !.pc = IF ok THEN "written" ELSE "failed"]

WriteFileWritten(r, i, ok) ==
    /\ CostStep(r, i, {"writing"}, CostWriteText(gainTasks[r][i], ok), {})
    /\ costFile' = FileAfterWrite(costFile, ok)

\* writeFile settled after its close: resolved, the lookup on the {} the call
\* began with follows; rejected, the outer catch returns 0
CostWritten(task, key) ==
    IF task.pc = "written"
    THEN [task EXCEPT !.pc = "done", !.cost = CostLookup(NoData, key), !.wrote = TRUE]
    ELSE [task EXCEPT !.pc = "done", !.cost = 0, !.wrote = FALSE]

CostWrittenLog(task) ==
    IF task.pc = "failed" THEN {"error: Cost basis tracking error"} ELSE {}

CostBasisWritten(r, i) ==
    /\ CostStep(r, i, {"written", "failed"},
                CostWritten(gainTasks[r][i], RequestKey(r, i)),
                CostWrittenLog(gainTasks[r][i]))
    /\ UNCHANGED costFile

----------------------------------------------------------------------------
(* The request is over and its slot is free again; keep says whether the    *)
(* history variable remembers it                                            *)

Snapshot(r) ==
    [valid |-> TRUE, addr |-> reqAddr[r], holdings |-> holdings[r],
     data |-> outcome[r].data,
     hits |-> [i \in DOMAIN gainTasks[r] |-> gainTasks[r][i].hit],
     prices |-> [i \in DOMAIN gainTasks[r] |-> gainTasks[r][i].price],
     ver |-> startVer[r]]

Forget(r, keep) ==
    /\ Quiet
    /\ pc[r] = "responded"
    /\ prev' = IF keep /\ outcome[r].success THEN Snapshot(r) ELSE NoPrev
    /\ pc' = [pc EXCEPT ![r] = "idle"]
    /\ reqAddr' = [reqAddr EXCEPT ![r] = AddrEmpty]
    /\ holdings' = [holdings EXCEPT ![r] = <<>>]
    /\ eligTasks' = [eligTasks EXCEPT ![r] = <<>>]
    /\ gainTasks' = [gainTasks EXCEPT ![r] = <<>>]
    /\ outcome' = [outcome EXCEPT ![r] = NoOutcome]
    /\ invoked' = [invoked EXCEPT ![r] = {}]
    /\ logs' = [logs EXCEPT ![r] = {}]
    /\ startVer' = [startVer EXCEPT ![r] = 0]
    /\ UNCHANGED <<envVars, cacheVars, calls>>

----------------------------------------------------------------------------
(* The environment *)

Tick(d, limit) ==
    /\ Quiet
    /\ now + d <= limit
    /\ now' = now + d
    /\ UNCHANGED <<srcAns, sig, costFile, extVer, cacheVars, reqVars, prev, calls>>

ChangePrice(s, m, ans) ==
    /\ Quiet
    /\ extVer < MaxExtChanges
    /\ srcAns[s][m] # ans
    /\ srcAns' = [srcAns EXCEPT ![s][m] = ans]
    /\ extVer' = extVer + 1
    /\ UNCHANGED <<now, sig, costFile, cacheVars, reqVars, prev, calls>>

\* a detector's answer for a mint changes
ChangeSignal(s, m, v) ==
    /\ Quiet
    /\ extVer < MaxExtChanges
    /\ sig[s][m] # v
    /\ sig' = [sig EXCEPT ![s][m] = v]
    /\ extVer' = extVer + 1
    /\ UNCHANGED <<now, srcAns, costFile, cacheVars, reqVars, prev, calls>>

----------------------------------------------------------------------------
(* Spec: one request at a time through the controller; the holdings RPC and *)
(* the price sources answer anything                                        *)

TransportErrors == {"ETIMEDOUT", "429 Too Many Requests"}
MainHoldings == {Holding("A", 10), Holding("B", 10), Holding("A", 0)}
MainAnswers == {Throws, Quote(2)}

Next ==
    \E r \in {1} :
        \/ \E a \in Addresses : GetWalletGains(r, a)
        \/ \E err \in TransportErrors : HoldingsFetchFailed(r, err)
        \/ \E hs \in HoldingLists(MainHoldings) : HoldingsFetched(r, hs)
        \/ \E i \in 1..MaxHoldings, ans \in MainAnswers : PriceSourceReplied(r, i, ans)
        \/ \E i \in 1..MaxHoldings : ReadFileOpened(r, i)
        \/ \E i \in 1..MaxHoldings : ReadFileStat(r, i)
        \/ \E i \in 1..MaxHoldings : ReadFileRead(r, i)
        \/ \E i \in 1..MaxHoldings : CostBasisRead(r, i)
        \/ \E i \in 1..MaxHoldings : CostBasisOpened(r, i)
        \/ \E i \in 1..MaxHoldings, ok \in BOOLEAN : WriteFileWritten(r, i, ok)
        \/ \E i \in 1..MaxHoldings : CostBasisWritten(r, i)
        \/ Forget(r, FALSE)

Spec == Init /\ [][Next]_vars

----------------------------------------------------------------------------
(* Direct calls of the tracker's methods, as a unit test or another caller  *)
(* makes them; the steps are those of the same methods inside a request     *)

CallGetTokenPrice(c, mint) ==
    /\ calls[c].op = "none"
    /\ calls' = [calls EXCEPT ![c] =
            [op |-> "price", wallet |-> "", mint |-> mint,
             task |-> GainStart(mint), ord |-> 0]]
    /\ priceCache' = CachePurge(priceCache, {mint}, NoPrice)
    /\ UNCHANGED <<envVars, tokenMetadataCache, transactionCache, reqVars, prev>>

PriceReturned(task) == task.pc # "src"

DirectSourceReplied(c, ans) ==
    /\ Quiet
    /\ calls[c].op = "price"
    /\ ~PriceReturned(calls[c].task)
    /\ calls' = [calls EXCEPT ![c].task = SourceStep(@, ans)]
    /\ priceCache' = PriceCacheAfter(calls[c].mint, ans)
    /\ UNCHANGED <<envVars, tokenMetadataCache, transactionCache, reqVars, prev>>

\* the call up to its await: the cache get, which deletes an expired entry,
\* and on a miss the detector calls; ord is its place in the microtask queue,
\* behind the calls that wait there
CallIsTradableMemeToken(c, mint) ==
    /\ calls[c].op = "none"
    /\ calls' = [calls EXCEPT ![c] =
            [op |-> "eligible", wallet |-> "", mint |-> mint,
             task |-> EligStart(mint),
             ord |-> IF EligStart(mint).pc = "wait"
                     THEN Cardinality({d \in Callers : Awaiting(d)}) + 1
                     ELSE 0]]
    /\ tokenMetadataCache' = CachePurge(tokenMetadataCache, {mint}, NoMeta)
    /\ UNCHANGED <<envVars, priceCache, transactionCache, reqVars, prev>>

\* the continuation of the await, in the order of the calls: the rule and the
\* cache set, or the catch; the calls behind it move up
IsTradableContinued(c) ==
    /\ Awaiting(c)
    /\ calls[c].ord = 1
    /\ calls' = [d \in Callers |->
            IF d = c THEN [calls[c] EXCEPT !.task = EligFinish(@, @.seen), !.ord = 0]
            ELSE IF Awaiting(d) THEN [calls[d] EXCEPT !.ord = @ - 1]
            ELSE calls[d]]
    /\ tokenMetadataCache' =
            MetadataCacheAfter(tokenMetadataCache, calls[c].mint, calls[c].task.seen)
    /\ UNCHANGED <<envVars, priceCache, transactionCache, reqVars, prev>>

CallTrackCostBasis(c, wallet, mint) ==
    /\ calls[c].op = "none"
    /\ calls' = [calls EXCEPT ![c] =
            [op |-> "cost", wallet |-> wallet, mint |-> mint,
             task |-> CostStart, ord |-> 0]]
    /\ UNCHANGED <<envVars, cacheVars, reqVars, prev>>

\* one step of caller c's _trackCostBasis
DirectCostStep(c, at, after) ==
    /\ Quiet
    /\ calls[c].op = "cost"
    /\ calls[c].task.pc \in at
    /\ calls' = [calls EXCEPT ![c].task = after]
    /\ UNCHANGED <<now, srcAns, sig, extVer, cacheVars, reqVars, prev>>

DirectKey(c) == CostKey(calls[c].wallet, calls[c].mint)

DirectReadFileOpened(c) ==
    /\ DirectCostStep(c, {"read"}, CostReadOpen(calls[c].task))
    /\ UNCHANGED costFile

DirectReadFileStat(c) ==
    /\ DirectCostStep(c, {"opened"}, CostReadSize(calls[c].task))
    /\ UNCHANGED costFile

DirectReadFileRead(c) ==
    /\ DirectCostStep(c, {"sized"}, CostReadText(calls[c].task))
    /\ UNCHANGED costFile

DirectCostRead(c) ==
    /\ DirectCostStep(c, {"closing"}, CostRead(calls[c].task, DirectKey(c)))
    /\ UNCHANGED costFile

DirectCostOpened(c) ==
    /\ DirectCostStep(c, {"write"}, CostOpen(calls[c].task))
    /\ costFile' = FileAfterOpen(costFile)

DirectWriteFileWritten(c, ok) ==
    /\ DirectCostStep(c, {"writing"}, CostWriteText(calls[c].task, ok))
    /\ costFile' = FileAfterWrite(costFile, ok)

DirectCostWritten(c) ==
    /\ DirectCostStep(c, {"written", "failed"}, CostWritten(calls[c].task, DirectKey(c)))
    /\ UNCHANGED costFile

\* this.transactionCache is built by the constructor and no method of the
\* tracker uses it; whoever holds the tracker reaches it through that field.
\* set(key, value) with the TTL the cache was built with
TransactionCacheSet(c, key, v) ==
    /\ calls[c].op = "none"
    /\ calls' = [calls EXCEPT ![c] =
            [op |-> "txset", wallet |-> "", mint |-> key,
             task |-> [pc |-> "done", hit |-> FALSE, ret |-> v], ord |-> 0]]
    /\ transactionCache' = CacheSet(transactionCache, key, v, TransactionsTTL)
    /\ UNCHANGED <<envVars, priceCache, tokenMetadataCache, reqVars, prev>>

\* get(key): the live entry's value, or nothing, an expired entry being deleted
TransactionCacheGet(c, key) ==
    /\ calls[c].op = "none"
    /\ LET got == CacheGet(transactionCache, key)
       IN  calls' = [calls EXCEPT ![c] =
                [op |-> "txget", wallet |-> "", mint |-> key,
                 task |-> [pc |-> "done", hit |-> got.hit, ret |-> got.hit /\ got.v],
                 ord |-> 0]]
    /\ transactionCache' = CachePurge(transactionCache, {key}, NoMeta)
    /\ UNCHANGED <<envVars, priceCache, tokenMetadataCache, reqVars, prev>>

CallReturned(call) ==
    \/ call.op \in {"txset", "txget"}
    \/ call.op = "price" /\ PriceReturned(call.task)
    \/ call.op = "eligible" /\ call.task.pc = "done"
    \/ call.op = "cost" /\ call.task.pc = "done"

\* the caller has its value and may call again, also while other calls wait
\* at their await
Release(c) ==
    /\ CallReturned(calls[c])
    /\ calls' = [calls EXCEPT ![c] = NoCall]
    /\ UNCHANGED <<envVars, cacheVars, reqVars, prev>>

----------------------------------------------------------------------------
(* SpecOracle: two callers of _getTokenPrice, the clock running, the price   *)
(* sources answering anything                                                *)

OracleMints == Mints
OracleAnswers == {Throws, Quote(0), Quote(2), Quote(3)}

NextOracle ==
    \/ \E c \in Callers, m \in OracleMints : CallGetTokenPrice(c, m)
    \/ \E c \in Callers, ans \in OracleAnswers : DirectSourceReplied(c, ans)
    \/ \E c \in Callers : Release(c)
    \/ Tick(PriceTTL, MaxTime)

SpecOracle == InitUnit /\ [][NextOracle]_vars

----------------------------------------------------------------------------
(* SpecElig: the two-of-three rule and its cache on every input.  The       *)
(* detectors are methods of the tracker; the three written ones return      *)
(* false, which is one of the answers drawn here; the others are what a     *)
(* detector put in their place can give: true, false or a rejection.  Two   *)
(* callers, the clock running, and a detector's answer may change.          *)

SignalAnswers == {"true", "false", "throws"}
AllSignals == [Signals -> SignalAnswers]

InitElig ==
    /\ InitCaches
    /\ InitReqs
    /\ now = 0
    /\ extVer = 0
    /\ srcAns = [s \in Sources |-> [m \in Mints |-> Throws]]
    /\ \E sg \in AllSignals : sig = [s \in Signals |-> [m \in Mints |-> sg[s]]]
    /\ costFile = RecordedFile

NextElig ==
    \/ \E c \in Callers, m \in Mints : CallIsTradableMemeToken(c, m)
    \/ \E c \in Callers : IsTradableContinued(c)
    \/ \E c \in Callers : Release(c)
    \/ Tick(MetadataTTL, MaxMetaTime)
    \/ \E s \in Signals, m \in Mints, v \in SignalAnswers : ChangeSignal(s, m, v)

SpecElig == InitElig /\ [][NextElig]_vars

----------------------------------------------------------------------------
(* SpecStore: two callers of _trackCostBasis on a store in any state, for a  *)
(* wallet and its mints and, as any caller of the method may, for strings   *)
(* that make the key the name of an inherited property                      *)

StoreCalls == {<<AddrWallet.text, "A">>, <<AddrWallet.text, "B">>, <<"", "_proto__">>}

InitStore ==
    /\ InitCaches
    /\ InitReqs
    /\ InitExternal
    /\ costFile \in StoreStates

NextStore ==
    \/ \E c \in Callers, a \in StoreCalls : CallTrackCostBasis(c, a[1], a[2])
    \/ \E c \in Callers : DirectReadFileOpened(c)
    \/ \E c \in Callers : DirectReadFileStat(c)
    \/ \E c \in Callers : DirectReadFileRead(c)
    \/ \E c \in Callers : DirectCostRead(c)
    \/ \E c \in Callers : DirectCostOpened(c)
    \/ \E c \in Callers, ok \in BOOLEAN : DirectWriteFileWritten(c, ok)
    \/ \E c \in Callers : DirectCostWritten(c)
    \/ \E c \in Callers : Release(c)

SpecStore == InitStore /\ [][NextStore]_vars

----------------------------------------------------------------------------
(* SpecIdem: successive requests for one wallet against external data held  *)
(* in the state: the sources answer what srcAns says, the clock runs, and a *)
(* source may change its answer                                             *)

IdemHoldings == {Holding("A", 10)}
IdemAnswers == {Throws, Quote(2), Quote(3)}

InitIdem ==
    /\ InitCaches
    /\ InitReqs
    /\ now = 0
    /\ extVer = 0
    /\ sig = [s \in Signals |-> [m \in Mints |-> WrittenDetectors[s]]]
    /\ \E a1 \in {Throws, Quote(2)}, a2 \in {Throws, Quote(3)} :
            srcAns = [s \in Sources |->
                        [m \in Mints |-> IF m = "B" \/ s = 3 THEN Throws
                                         ELSE IF s = 1 THEN a1 ELSE a2]]
    /\ costFile \in {AbsentFile(TRUE),
                      RecordedFile}

NextIdem ==
    \/ \E r \in {1} :
        \/ GetWalletGains(r, AddrWallet)
        \/ \E hs \in HoldingLists(IdemHoldings) : HoldingsFetched(r, hs)
        \/ \E i \in DOMAIN gainTasks[r] :
                /\ gainTasks[r][i].pc = "src"
                /\ PriceSourceReplied(r, i, srcAns[gainTasks[r][i].src][holdings[r][i].mint])
        \/ \E i \in 1..MaxHoldings : ReadFileOpened(r, i)
        \/ \E i \in 1..MaxHoldings : ReadFileStat(r, i)
        \/ \E i \in 1..MaxHoldings : ReadFileRead(r, i)
        \/ \E i \in 1..MaxHoldings : CostBasisRead(r, i)
        \/ \E i \in 1..MaxHoldings : CostBasisOpened(r, i)
        \/ \E i \in 1..MaxHoldings : WriteFileWritten(r, i, TRUE)
        \/ \E i \in 1..MaxHoldings : CostBasisWritten(r, i)
        \/ Forget(r, TRUE)
    \/ Tick(PriceTTL, MaxTime)
    \/ \E s \in {1, 2}, ans \in IdemAnswers : ChangePrice(s, "A", ans)

SpecIdem == InitIdem /\ [][NextIdem]_vars

----------------------------------------------------------------------------
(* SpecFail: two requests side by side whose holdings fetch answers an      *)
(* empty list or is rejected with one of two transport errors               *)

NextFail ==
    \E r \in Reqs :
        \/ \E a \in Addresses : GetWalletGains(r, a)
        \/ \E err \in TransportErrors : HoldingsFetchFailed(r, err)
        \/ HoldingsFetched(r, <<>>)
        \/ Forget(r, FALSE)

SpecFail == Init /\ [][NextFail]_vars

----------------------------------------------------------------------------
(* SpecLive: one request at a time, the sources answering what srcAns says  *)
(* or, for a source marked NeverAnswers, not at all.  axios.get is called   *)
(* without a timeout option, so nothing settles the await of such a source. *)
(* Fairness: the file system answers, and a source that answers does so     *)
(* eventually; the turn each answer starts runs to its end.                 *)

NeverAnswers == [throws |-> FALSE, price |-> 0, never |-> TRUE]
LiveAnswers == {Throws, Quote(2), NeverAnswers}

InitLive ==
    /\ InitCaches
    /\ InitReqs
    /\ now = 0
    /\ extVer = 0
    /\ sig = [s \in Signals |-> [m \in Mints |-> WrittenDetectors[s]]]
    /\ \E a \in [Sources -> LiveAnswers] :
            srcAns = [s \in Sources |-> [m \in Mints |-> IF m = "A" THEN a[s] ELSE Throws]]
    /\ costFile \in {AbsentFile(TRUE),
                      AbsentFile(FALSE),
                      RecordedFile}

SourceAnswered(r, i) ==
    /\ i \in DOMAIN gainTasks[r]
    /\ gainTasks[r][i].pc = "src"
    /\ srcAns[gainTasks[r][i].src][holdings[r][i].mint] # NeverAnswers
    /\ PriceSourceReplied(r, i, srcAns[gainTasks[r][i].src][holdings[r][i].mint])

NextLive ==
    \E r \in {1} :
        \/ GetWalletGains(r, AddrWallet)
        \/ \E hs \in HoldingLists(IdemHoldings) : HoldingsFetched(r, hs)
        \/ \E i \in 1..MaxHoldings : SourceAnswered(r, i)
        \/ \E i \in 1..MaxHoldings : ReadFileOpened(r, i)
        \/ \E i \in 1..MaxHoldings : ReadFileStat(r, i)
        \/ \E i \in 1..MaxHoldings : ReadFileRead(r, i)
        \/ \E i \in 1..MaxHoldings : CostBasisRead(r, i)
        \/ \E i \in 1..MaxHoldings : CostBasisOpened(r, i)
        \/ \E i \in 1..MaxHoldings, ok \in BOOLEAN : WriteFileWritten(r, i, ok)
        \/ \E i \in 1..MaxHoldings : CostBasisWritten(r, i)
        \/ Forget(r, FALSE)

FairLive ==
    /\ \A i \in 1..MaxHoldings : WF_vars(SourceAnswered(1, i))
    /\ \A i \in 1..MaxHoldings : WF_vars(ReadFileOpened(1, i))
    /\ \A i \in 1..MaxHoldings : WF_vars(ReadFileStat(1, i))
    /\ \A i \in 1..MaxHoldings : WF_vars(ReadFileRead(1, i))
    /\ \A i \in 1..MaxHoldings : WF_vars(CostBasisRead(1, i))
    /\ \A i \in 1..MaxHoldings : WF_vars(CostBasisOpened(1, i))
    /\ \A i \in 1..MaxHoldings : WF_vars(\E ok \in BOOLEAN : WriteFileWritten(1, i, ok))
    /\ \A i \in 1..MaxHoldings : WF_vars(CostBasisWritten(1, i))

SpecLive == InitLive /\ [][NextLive]_vars /\ FairLive

----------------------------------------------------------------------------
(* SpecCaches: two callers of _getTokenPrice, _isTradableMemeToken and the   *)
(* transaction cache for one key while the clock runs past the three TTLs   *)

CacheMints == {"A"}
\* the moments the clock stops at: around each TTL's end
CacheTimes == {300, 600, 900, 3300, 3600, 3900}
CacheAnswers == {Throws, Quote(2), Quote(3)}

NextCaches ==
    \/ \E c \in Callers, m \in CacheMints : CallGetTokenPrice(c, m)
    \/ \E c \in Callers, ans \in CacheAnswers : DirectSourceReplied(c, ans)
    \/ \E c \in Callers, m \in CacheMints : CallIsTradableMemeToken(c, m)
    \/ \E c \in Callers : IsTradableContinued(c)
    \/ \E c \in Callers, m \in CacheMints, v \in BOOLEAN : TransactionCacheSet(c, m, v)
    \/ \E c \in Callers, m \in CacheMints : TransactionCacheGet(c, m)
    \/ \E c \in Callers : Release(c)
    \/ \E t \in CacheTimes : now < t /\ Tick(t - now, MaxCacheTime)

SpecCaches == InitUnit /\ [][NextCaches]_vars

----------------------------------------------------------------------------
(* SpecConc: two calculateGains requests, for the same or different         *)
(* wallets, and a direct caller of _getTokenPrice / _isTradableMemeToken,   *)
(* interleaved in every way against external data that does not change:     *)
(* the detectors as written or detectors that find the mint tradable        *)

AddrOther == [text |-> "wallet2", len |-> 44, decodes |-> TRUE]
\* the second request is for the wallet of the first or for another one
ConcAddresses(r) == IF r = 1 THEN {AddrWallet} ELSE {AddrWallet, AddrOther}

\* the first request may hold the mint twice, the second holds it once
ConcHoldings(r) ==
    {hs \in HoldingLists(IdemHoldings) : Len(hs) >= 1 /\ Len(hs) + r <= MaxHoldings + 1}

\* the detectors as written with a store that holds a record, and detectors
\* that find the mint tradable with a store that does not parse
ConcData ==
    {<<WrittenDetectors, RecordedFile>>,
     <<[s \in Signals |-> IF s = 3 THEN "false" ELSE "true"], CorruptFile(TRUE, 1)>>}

InitConc ==
    /\ InitCaches
    /\ InitReqs
    /\ now = 0
    /\ extVer = 0
    /\ \E a1 \in {Quote(0)}, a2 \in {Quote(3)} :
            srcAns = [s \in Sources |->
                        [m \in Mints |-> IF m = "B" \/ s = 3 THEN Throws
                                         ELSE IF s = 1 THEN a1 ELSE a2]]
    /\ \E d \in ConcData :
            /\ sig = [s \in Signals |-> [m \in Mints |-> d[1][s]]]
            /\ costFile = d[2]

DirectSourceAnswered(c) ==
    /\ calls[c].op = "price"
    /\ calls[c].task.pc = "src"
    /\ DirectSourceReplied(c, srcAns[calls[c].task.src][calls[c].mint])

NextConc ==
    \/ \E r \in Reqs :
        \/ \E a \in ConcAddresses(r) : GetWalletGains(r, a)
        \/ \E hs \in ConcHoldings(r) : HoldingsFetched(r, hs)
        \/ \E i \in 1..MaxHoldings : SourceAnswered(r, i)
        \/ \E i \in 1..MaxHoldings : ReadFileOpened(r, i)
        \/ \E i \in 1..MaxHoldings : ReadFileStat(r, i)
        \/ \E i \in 1..MaxHoldings : ReadFileRead(r, i)
        \/ \E i \in 1..MaxHoldings : CostBasisRead(r, i)
        \/ \E i \in 1..MaxHoldings : CostBasisOpened(r, i)
        \/ \E i \in 1..MaxHoldings : WriteFileWritten(r, i, TRUE)
        \/ \E i \in 1..MaxHoldings : CostBasisWritten(r, i)
    \/ \E c \in {1} :
        \/ CallGetTokenPrice(c, "A")
        \/ DirectSourceAnswered(c)
        \/ CallIsTradableMemeToken(c, "A")
        \/ IsTradableContinued(c)
        \/ Release(c)

SpecConc == InitConc /\ [][NextConc]_vars

----------------------------------------------------------------------------
(* Observations used by the properties *)

Responded(r) == pc[r] = "responded"

\* the request got past the controller's check, so calculateGains was called
ReachedCalculateGains(r) ==
    pc[r] # "idle" /\ reqAddr[r].text # "" /\ reqAddr[r].len >= 32

Failed(r) == outcome[r].kind = "next"

\* some record of the returned list is the one built for holding i
ReportedFor(r, i) ==
    \E k \in DOMAIN outcome[r].data :
        /\ outcome[r].data[k].token = holdings[r][i].mint
        /\ outcome[r].data[k].amount = holdings[r][i].uiAmount
        /\ outcome[r].data[k].currentPrice = gainTasks[r][i].price
        /\ outcome[r].data[k].costBasis = gainTasks[r][i].cost

\* record k of the returned list was built for a holding found eligible
FromEligibleHolding(r, k) ==
    \E i \in DOMAIN holdings[r] :
        /\ outcome[r].data[k].token = holdings[r][i].mint
        /\ outcome[r].data[k].amount = holdings[r][i].uiAmount
        /\ eligTasks[r][i].pc = "done"
        /\ eligTasks[r][i].ret

\* every source was asked and none gave a positive price
AllSourcesFailed(task) ==
    /\ Len(task.seen) = 3
    /\ \A k \in 1..3 : task.seen[k].throws \/ task.seen[k].price <= 0

----------------------------------------------------------------------------
(* C1: calculateGains returns a record only for a holding whose eligibility *)
(* check resolved to true.  The code keeps every holding, so this fails.    *)

C1_OnlyEligibleReported ==
    \A r \in Reqs :
        (Responded(r) /\ outcome[r].success /\ AllEligDone(r)) =>
            \A k \in DOMAIN outcome[r].data : FromEligibleHolding(r, k)

(* C2: an empty address or one shorter than 32 characters ends in the       *)
(* InvalidAddress outcome (400, 'Invalid wallet address') and no            *)
(* collaborator (holdings, price source, cost-basis store) is invoked.      *)

C2_ShortAddressRejected ==
    \A r \in Reqs :
        (pc[r] # "idle" /\ (reqAddr[r].len = 0 \/ reqAddr[r].len < 32)) =>
            /\ Responded(r)
            /\ outcome[r].kind = "json"
            /\ outcome[r].status = 400
            /\ ~outcome[r].success
            /\ outcome[r].message = "Invalid wallet address"
            /\ invoked[r] = {}
            /\ holdings[r] = <<>> /\ gainTasks[r] = <<>> /\ eligTasks[r] = <<>>

C2_Witness ==
    \E r \in Reqs :
        /\ Responded(r)
        /\ reqAddr[r].len = 31
        /\ outcome[r].status = 400
        /\ outcome[r].message = "Invalid wallet address"

(* C3: every address that fails validation, also one of 32 characters or    *)
(* more that PublicKey rejects, ends in the InvalidAddress outcome (400).   *)
(* The code forwards such an address as a calculation failure.              *)

C3_InvalidAddressIs400 ==
    \A r \in Reqs :
        (Responded(r) /\ ~reqAddr[r].decodes) =>
            /\ outcome[r].kind = "json"
            /\ outcome[r].status = 400
            /\ outcome[r].message = "Invalid wallet address"
            /\ "holdings" \notin invoked[r]

(* C4: calculateGains fails exactly when the address is invalid or the      *)
(* holdings fetch fails; otherwise it completes with a list, every holding  *)
(* is evaluated, and a failing source chain, a rejecting signal or a store  *)
(* that cannot be read, parsed or written degrades that holding to price 0, *)
(* eligibility false, cost basis 0.                                         *)

C4_OnlyFatalErrorsFail ==
    \A r \in Reqs :
        (Responded(r) /\ ReachedCalculateGains(r)) =>
            /\ Failed(r) <=> (~reqAddr[r].decodes \/ "holdings rejected" \in invoked[r])
            /\ ~Failed(r) =>
                /\ outcome[r].kind = "json" /\ outcome[r].success
                /\ outcome[r].status = 200
                /\ \A i \in DOMAIN holdings[r] :
                    /\ gainTasks[r][i].pc = "done"
                    /\ AllSourcesFailed(gainTasks[r][i]) => gainTasks[r][i].price = 0
                    /\ gainTasks[r][i].found # "ok" => gainTasks[r][i].cost = 0
                    /\ eligTasks[r][i].pc = "done"
                    /\ (\E s \in 1..3 : sig[s][holdings[r][i].mint] = "throws")
                            => ~eligTasks[r][i].ret
                    /\ gainTasks[r][i].price * holdings[r][i].uiAmount > 0
                            => ReportedFor(r, i)

\* the first holding's signal rejects, its sources throw and the store can
\* be neither read nor created; the second holding is reported
C4_Witness ==
    \E r \in Reqs :
        /\ Responded(r) /\ outcome[r].success
        /\ Len(holdings[r]) = 2
        /\ eligTasks[r][1].seen = <<"true", "true", "throws">>
        /\ eligTasks[r][1].threw /\ ~eligTasks[r][1].ret
        /\ "warn: Token detection error" \in logs[r]
        /\ AllSourcesFailed(gainTasks[r][1])
        /\ \E k \in 1..3 : gainTasks[r][1].seen[k].throws
        /\ gainTasks[r][1].found = "absent" /\ ~gainTasks[r][1].wrote
        /\ "error: Cost basis tracking error" \in logs[r]
        /\ ReportedFor(r, 2)

(* C7: every record of the returned list has totalValue > 0; a holding      *)
(* whose price resolved to 0 or whose amount is 0 is not in the list,       *)
(* eligible or not.                                                         *)

C7_OnlyPositiveValueReported ==
    \A r \in Reqs :
        (Responded(r) /\ outcome[r].success) =>
            /\ \A k \in DOMAIN outcome[r].data : outcome[r].data[k].totalValue > 0
            /\ \A i \in DOMAIN holdings[r] :
                    (gainTasks[r][i].price = 0 \/ holdings[r][i].uiAmount = 0)
                        => ~ReportedFor(r, i)

C7_Witness ==
    \E r \in Reqs :
        /\ Responded(r) /\ outcome[r].success
        /\ Len(holdings[r]) = 2
        /\ gainTasks[r][1].price = 0 /\ holdings[r][1].uiAmount > 0
        /\ eligTasks[r][1].pc = "done" /\ eligTasks[r][1].ret
        /\ holdings[r][2].uiAmount = 0 /\ gainTasks[r][2].price > 0
        /\ eligTasks[r][2].pc = "done" /\ ~eligTasks[r][2].ret
        /\ outcome[r].data = <<>>

----------------------------------------------------------------------------
(* Observations of the direct calls *)

NoPositivePrice(ans) == ans.throws \/ ans.price <= 0

\* caller c is handed a source's answer in this step
SourceAnswersTo(c) ==
    /\ calls[c].op = "price" /\ calls'[c].op = "price"
    /\ Len(calls'[c].task.seen) = Len(calls[c].task.seen) + 1

LastAnswer(c) == calls'[c].task.seen[Len(calls'[c].task.seen)]

\* caller c's _getTokenPrice returns in this step
PriceReturnsTo(c) ==
    /\ calls[c].op = "price" /\ calls'[c].op = "price"
    /\ calls[c].task.pc = "src" /\ calls'[c].task.pc # "src"

\* caller c starts a call of kind op in this step
Starts(c, op) == calls[c].op = "none" /\ calls'[c].op = op

(* C5: on a cache miss with the first source failing (a throw or a price    *)
(* <= 0) and the second answering p > 0, _getTokenPrice returns p and       *)
(* stores p under the mint for the price TTL; a call made while an entry    *)
(* is live returns the entry's value and invokes no source.                 *)

C5_Step ==
    \A c \in Callers :
        /\ (/\ PriceReturnsTo(c)
            /\ ~calls'[c].task.hit
            /\ Len(calls'[c].task.seen) = 2
            /\ NoPositivePrice(calls'[c].task.seen[1])
            /\ ~NoPositivePrice(calls'[c].task.seen[2]))
           => /\ calls'[c].task.price = calls'[c].task.seen[2].price
              /\ priceCache'[calls[c].mint] =
                    [has |-> TRUE, v |-> calls'[c].task.seen[2].price, t |-> now + 300]
        /\ (/\ Starts(c, "price")
            /\ priceCache[calls'[c].mint].has
            /\ now <= priceCache[calls'[c].mint].t)
           => /\ calls'[c].task.pc # "src"
              /\ calls'[c].task.price = priceCache[calls'[c].mint].v
              /\ calls'[c].task.seen = <<>>
              /\ calls'[c].task.src = 0
              /\ priceCache' = priceCache

C5_FallbackThenCached == [][C5_Step]_vars

C5_Witness ==
    /\ calls[1].op = "price" /\ calls[2].op = "price"
    /\ calls[1].mint = calls[2].mint
    /\ calls[1].task.seen = <<Throws, Quote(3)>>
    /\ calls[1].task.price = 3
    /\ now = 300
    /\ priceCache[calls[1].mint] = [has |-> TRUE, v |-> 3, t |-> 300]
    /\ calls[2].task.hit /\ calls[2].task.price = 3 /\ calls[2].task.seen = <<>>

(* C6: when all three sources throw or answer <= 0, _getTokenPrice returns  *)
(* exactly 0 and none of its steps writes the price cache; in every state   *)
(* every price held in the cache is > 0.                                    *)

C6_CacheHoldsPositive == \A m \in Mints : priceCache[m].has => priceCache[m].v > 0

C6_Step ==
    \A c \in Callers :
        /\ (SourceAnswersTo(c) /\ NoPositivePrice(LastAnswer(c)))
           => priceCache' = priceCache
        /\ (/\ PriceReturnsTo(c)
            /\ Len(calls'[c].task.seen) = 3
            /\ \A k \in 1..3 : NoPositivePrice(calls'[c].task.seen[k]))
           => calls'[c].task.price = 0

C6_NoPriceNothingCached == []C6_CacheHoldsPositive /\ [][C6_Step]_vars

C6_Witness ==
    \E c \in Callers :
        /\ calls[c].op = "price" /\ calls[c].mint = "A"
        /\ calls[c].task.seen = <<Throws, Quote(0), Throws>>
        /\ calls[c].task.price = 0
        /\ ~priceCache["A"].has
        /\ priceCache["B"].has

(* C8: when the three signals answer, _isTradableMemeToken returns true     *)
(* exactly when at least two are true and stores that boolean, true or      *)
(* false, for the metadata TTL; a call made while an entry is live returns  *)
(* the stored boolean and evaluates no signal.  (A signal that throws is    *)
(* the subject of C17 and C20.)                                             *)

TwoOfThree(sigs) ==
    \/ sigs[1] = "true" /\ sigs[2] = "true"
    \/ sigs[1] = "true" /\ sigs[3] = "true"
    \/ sigs[2] = "true" /\ sigs[3] = "true"

\* caller c's _isTradableMemeToken call of this step found no live entry and
\* called the signals
EvaluatesFor(c) == Starts(c, "eligible") /\ ~calls'[c].task.hit

\* caller c's _isTradableMemeToken call goes on after its await and returns
SignalsResolveFor(c) ==
    /\ calls[c].op = "eligible" /\ calls'[c].op = "eligible"
    /\ calls[c].task.pc = "wait" /\ calls'[c].task.pc = "done"

MetaLive(mint) == tokenMetadataCache[mint].has /\ now <= tokenMetadataCache[mint].t

C8_Step ==
    \A c \in Callers :
        /\ (Starts(c, "eligible") /\ ~MetaLive(calls'[c].mint))
           => /\ EvaluatesFor(c)
              /\ calls'[c].task.pc = "wait"
              /\ calls'[c].task.seen = SignalsOf(calls'[c].mint)
              /\ calls'[c].task.evals = 3
        /\ (/\ SignalsResolveFor(c)
            /\ \A s \in 1..3 : calls[c].task.seen[s] \in {"true", "false"})
           => /\ calls'[c].task.seen = calls[c].task.seen
              /\ calls'[c].task.evals = 3
              /\ calls'[c].task.ret = TwoOfThree(calls[c].task.seen)
              /\ tokenMetadataCache'[calls[c].mint] =
                    [has |-> TRUE, v |-> TwoOfThree(calls[c].task.seen),
                     t |-> now + 3600]
        /\ (Starts(c, "eligible") /\ MetaLive(calls'[c].mint))
           => /\ calls'[c].task.pc = "done"
              /\ calls'[c].task.ret = tokenMetadataCache[calls'[c].mint].v
              /\ calls'[c].task.evals = 0
              /\ calls'[c].task.seen = <<>>
              /\ tokenMetadataCache' = tokenMetadataCache

C8_TwoOfThreeCached == [][C8_Step]_vars

\* the first call cached false at time 0; at 3600 s the second is served that
\* entry although two signals are true by now
C8_Witness ==
    /\ calls[1].op = "eligible" /\ calls[2].op = "eligible"
    /\ calls[1].mint = calls[2].mint
    /\ calls[1].task.pc = "done"
    /\ calls[1].task.seen = <<"false", "true", "false">>
    /\ ~calls[1].task.ret
    /\ now = 3600
    /\ tokenMetadataCache[calls[1].mint] = [has |-> TRUE, v |-> FALSE, t |-> 3600]
    /\ calls[2].task.hit /\ ~calls[2].task.ret /\ calls[2].task.evals = 0
    /\ TwoOfThree(SignalsOf(calls[1].mint))

(* C9: _trackCostBasis for a wallet and mint without a recorded entry       *)
(* returns exactly 0 whatever the state of the store (absent, corrupt,      *)
(* without text, readable), and after a call that found the store absent    *)
(* the store exists and is empty.  The lookup on the parsed object also     *)
(* finds the properties every object inherits, and a store that cannot be   *)
(* created or written stays absent or without text, so this fails.          *)

CostReturnsTo(c) ==
    /\ calls[c].op = "cost" /\ calls'[c].op = "cost"
    /\ calls[c].task.pc # "done" /\ calls'[c].task.pc = "done"

\* what the call read held no entry for its key
NoEntryRead(c) ==
    IF calls[c].task.pc = "closing"
    THEN CostKey(calls[c].wallet, calls[c].mint) \notin DOMAIN calls[c].task.text.data
    ELSE calls[c].task.found \in {"absent", "corrupt", "empty"}

C9_Step ==
    \A c \in Callers :
        /\ (CostReturnsTo(c) /\ NoEntryRead(c)) => calls'[c].task.cost = 0
        /\ (CostReturnsTo(c) /\ calls[c].task.found = "absent")
            => (costFile'.status = "ok" /\ costFile'.data = NoData)

C9_NoEntryReturnsZero == [][C9_Step]_vars

----------------------------------------------------------------------------
(* Observations of two successive requests *)

\* what _getTokenPrice yields from the sources as they answer now
FreshPrice(mint) ==
    IF \E s \in Sources : ~NoPositivePrice(srcAns[s][mint])
    THEN LET first == CHOOSE s \in Sources :
                        /\ ~NoPositivePrice(srcAns[s][mint])
                        /\ \A q \in Sources : q < s => NoPositivePrice(srcAns[q][mint])
         IN  srcAns[first][mint].price
    ELSE 0

\* request r answered after the previous request, for the same address and
\* holdings, and the external data has not changed since the previous one began
SecondOfTwo(r) ==
    /\ Responded(r) /\ outcome[r].success
    /\ prev.valid
    /\ prev.addr = reqAddr[r]
    /\ prev.holdings = holdings[r]
    /\ prev.ver = extVer

\* a price the first call took from the cache, which the sources no longer
\* yield, is still served from the cache in the second call
StaleStillCached(r) ==
    \A i \in DOMAIN holdings[r] :
        (prev.hits[i] /\ prev.prices[i] # FreshPrice(holdings[r][i].mint))
            => gainTasks[r][i].hit

(* C10: two successive calculateGains calls for the same address with       *)
(* unchanged external data return the same set of records.                  *)

\* the claim as written: whatever the cache held before the first call
C10_Original ==
    \A r \in Reqs : SecondOfTwo(r) => Range(outcome[r].data) = Range(prev.data)

\* amended: unless a cached price that the sources no longer yield, served by
\* the first call, has expired by the second
C10_SameResultsTwice ==
    \A r \in Reqs :
        (SecondOfTwo(r) /\ StaleStillCached(r))
            => Range(outcome[r].data) = Range(prev.data)

C10_Witness ==
    \E r \in Reqs :
        /\ SecondOfTwo(r)
        /\ Len(holdings[r]) = 2
        /\ prev.hits[1] /\ ~gainTasks[r][1].hit
        /\ outcome[r].data # <<>>
        /\ Range(outcome[r].data) = Range(prev.data)

----------------------------------------------------------------------------
\* the two requests were made alike and both failed at the holdings fetch
FailedAlike(r1, r2) ==
    /\ Responded(r1) /\ Responded(r2)
    /\ reqAddr[r1] = reqAddr[r2]
    /\ Failed(r1) /\ Failed(r2)
    /\ "holdings rejected" \in invoked[r1]
    /\ "holdings rejected" \in invoked[r2]

(* C11: the failure message calculateGains hands to its caller does not     *)
(* depend on the text of the underlying error: two requests for the same    *)
(* address whose holdings fetch failed, with whatever transport errors,     *)
(* carry the same message.  The code appends the error's text, so this      *)
(* fails.                                                                   *)

C11_StableFailureMessage ==
    \A r1, r2 \in Reqs :
        FailedAlike(r1, r2) => outcome[r1].message = outcome[r2].message

----------------------------------------------------------------------------
(* C12: every GainResult has totalValue = currentPrice * amount and         *)
(* unrealizedGain = totalValue - costBasis, where currentPrice is what      *)
(* _getTokenPrice returned for the holding's mint, amount the holding's     *)
(* uiAmount and costBasis what _trackCostBasis returned for the wallet and  *)
(* mint (non-negative integers).                                            *)

Arithmetic(rec) ==
    /\ rec.totalValue = rec.currentPrice * rec.amount
    /\ rec.unrealizedGain = rec.totalValue - rec.costBasis

\* the record built for holding i of request r, both calls having returned
BuiltFrom(rec, r, i) ==
    /\ rec.token = holdings[r][i].mint
    /\ rec.currentPrice = gainTasks[r][i].price
    /\ rec.amount = holdings[r][i].uiAmount
    /\ rec.costBasis = gainTasks[r][i].cost

C12_GainArithmetic ==
    \A r \in Reqs :
        /\ \A i \in DOMAIN gainTasks[r] :
                gainTasks[r][i].pc = "done" =>
                    /\ BuiltFrom(GainResults(r)[i], r, i)
                    /\ Arithmetic(GainResults(r)[i])
        /\ (Responded(r) /\ outcome[r].success) =>
                \A k \in DOMAIN outcome[r].data :
                    /\ Arithmetic(outcome[r].data[k])
                    /\ \E i \in DOMAIN holdings[r] : BuiltFrom(outcome[r].data[k], r, i)

C12_Witness ==
    \E r \in Reqs :
        /\ Responded(r) /\ outcome[r].success
        /\ Len(outcome[r].data) = 2
        /\ outcome[r].data[1] =
                [token |-> "A", currentPrice |-> 2, amount |-> 10, costBasis |-> 5,
                 totalValue |-> 20, unrealizedGain |-> 15]
        /\ outcome[r].data[2].token = "B"
        /\ outcome[r].data[2].costBasis = 0
        /\ outcome[r].data[2].unrealizedGain = 20

----------------------------------------------------------------------------
(* C13: within one _getTokenPrice call the sources are invoked in the order *)
(* CoinGecko, DexScreener, Raydium: the source that answers is the one      *)
(* after those that already answered, every earlier answer was a throw or   *)
(* a price <= 0, each source answers at most once, none is invoked after a  *)
(* price > 0, and the price returned is the first price > 0 in that order   *)
(* (0 if there is none).                                                    *)

\* the sources invoked so far by a call that missed the cache
InvokedSources(task) ==
    IF task.pc = "src" THEN 1..task.src ELSE 1..Len(task.seen)

C13_InOrder ==
    \A c \in Callers :
        calls[c].op = "price" =>
            LET t == calls[c].task
            IN  /\ t.hit => t.seen = <<>>
                /\ InvokedSources(t) \subseteq DOMAIN SourceNames
                /\ t.pc = "src" => t.src = Len(t.seen) + 1
                /\ \A k \in InvokedSources(t) :
                        \A j \in 1..(k - 1) : NoPositivePrice(t.seen[j])
                /\ (t.pc # "src" /\ ~t.hit) =>
                        /\ Len(t.seen) >= 1
                        /\ IF NoPositivePrice(t.seen[Len(t.seen)])
                           THEN Len(t.seen) = 3 /\ t.price = 0
                           ELSE t.price = t.seen[Len(t.seen)].price

C13_Step ==
    \A c \in Callers :
        SourceAnswersTo(c) =>
            /\ calls[c].task.pc = "src"
            /\ SourceNames[calls[c].task.src] =
                    <<"CoinGecko", "DexScreener", "Raydium">>[Len(calls[c].task.seen) + 1]
            /\ calls'[c].task.seen = Append(calls[c].task.seen, LastAnswer(c))
            /\ IF ~NoPositivePrice(LastAnswer(c))
               THEN calls'[c].task.pc # "src"
               ELSE IF calls[c].task.src < 3
               THEN calls'[c].task.pc = "src" /\ calls'[c].task.src = calls[c].task.src + 1
               ELSE calls'[c].task.pc # "src"

C13_SourcesInOrder == []C13_InOrder /\ [][C13_Step]_vars

C13_Witness ==
    \E c \in Callers :
        /\ calls[c].op = "price"
        /\ calls[c].task.pc # "src"
        /\ calls[c].task.seen = <<Quote(0), Throws, Quote(3)>>
        /\ calls[c].task.src = 3
        /\ calls[c].task.price = 3

----------------------------------------------------------------------------
(* C14: during calculateGains, for a holding whose eligibility check        *)
(* resolved to false there is no _getTokenPrice call (no source call, no    *)
(* price-cache write) and no _trackCostBasis call.  The code starts both    *)
(* for every holding, so this fails.                                        *)

\* the map callback of holding i never ran
NotConsulted(r, i) ==
    /\ gainTasks[r][i].pc = "skipped"
    /\ gainTasks[r][i].seen = <<>>
    /\ gainTasks[r][i].found = "none"

C14_IneligibleNotConsulted ==
    \A r \in Reqs :
        \A i \in DOMAIN holdings[r] :
            (eligTasks[r][i].pc = "done" /\ ~eligTasks[r][i].ret) => NotConsulted(r, i)

----------------------------------------------------------------------------
\* holding i's _getTokenPrice call is waiting for a source
AwaitingSource(r, i) == i \in DOMAIN gainTasks[r] /\ gainTasks[r][i].pc = "src"

(* C15: _getTokenPrice always eventually returns, also when a price source  *)
(* never answers, and so calculateGains eventually completes once the       *)
(* holdings fetch has answered.  The source calls carry no timeout, so      *)
(* this fails.                                                              *)

C15_PriceCallReturns ==
    /\ \A i \in 1..MaxHoldings : AwaitingSource(1, i) ~> ~AwaitingSource(1, i)
    /\ (pc[1] = "running") ~> (pc[1] = "responded")

\* the same, when every source answers
AllSourcesAnswer == \A s \in Sources, m \in Mints : srcAns[s][m] # NeverAnswers

ReturnsWhenSourcesAnswer ==
    /\ \A i \in 1..MaxHoldings :
            (AllSourcesAnswer /\ AwaitingSource(1, i)) ~> ~AwaitingSource(1, i)
    /\ (AllSourcesAnswer /\ pc[1] = "running") ~> (pc[1] = "responded")

----------------------------------------------------------------------------
(* C16: _trackCostBasis leaves an existing store unchanged: it writes only  *)
(* when the store is absent.  A store that exists, readable or corrupt,     *)
(* has the same contents after the call, and a corrupt store makes the      *)
(* call return 0 with an error-level log.  The code overwrites a corrupt    *)
(* store with an empty one and logs nothing, so this fails.                 *)

\* holding i's _trackCostBasis call, having found the store in state st,
\* returns in this step
CostCallReturns(r, i, st) ==
    /\ i \in DOMAIN gainTasks[r] /\ i \in DOMAIN gainTasks'[r]
    /\ gainTasks[r][i].pc \in {"write", "written", "failed"}
    /\ gainTasks[r][i].found = st
    /\ gainTasks'[r][i].pc = "done"

\* the store changes only in a step of a call that found it absent
C16_Step ==
    /\ costFile' # costFile =>
            \E r \in Reqs : \E i \in DOMAIN gainTasks[r] :
                /\ i \in DOMAIN gainTasks'[r]
                /\ gainTasks'[r][i] # gainTasks[r][i]
                /\ gainTasks[r][i].found = "absent"
    /\ \A r \in Reqs, i \in 1..MaxHoldings :
            CostCallReturns(r, i, "corrupt") =>
                /\ gainTasks'[r][i].cost = 0
                /\ "error: Cost basis tracking error" \in logs'[r]

C16_ExistingStoreUnchanged == [][C16_Step]_vars

----------------------------------------------------------------------------
(* C17: a signal that raises counts as that one signal being false:         *)
(* _isTradableMemeToken returns the two-of-three result of the degraded     *)
(* signals, so true when one signal raises and the other two are true.      *)
(* Promise.all rejects when one signal rejects and the catch returns false, *)
(* so this fails.                                                           *)

C17_Step ==
    \A c \in Callers :
        /\ EvaluatesFor(c) => calls'[c].task.seen = SignalsOf(calls'[c].mint)
        /\ SignalsResolveFor(c) => calls'[c].task.ret = TwoOfThree(calls[c].task.seen)

C17_RaisingSignalIsFalse == [][C17_Step]_vars

----------------------------------------------------------------------------
(* C18: for each cache a get after an entry's expiry time is a miss, a get  *)
(* before it returns the value last set for the key, and every set puts     *)
(* the expiry time one TTL after the time of that set; the caches expire    *)
(* independently with TTLs 300 s (price), 3600 s (metadata) and 600 s       *)
(* (transactions).                                                          *)

\* entry e was deleted in this step, having expired
Expired(e, e2) == e.has /\ now > e.t /\ ~e2.has

\* caller c's call sets the entry in this step to the value it returns
PriceSetBy(c, m) ==
    /\ PriceReturnsTo(c) /\ calls[c].mint = m
    /\ priceCache'[m] = [has |-> TRUE, v |-> calls'[c].task.price, t |-> now + 300]

MetaSetBy(c, m) ==
    /\ SignalsResolveFor(c) /\ calls[c].mint = m
    /\ tokenMetadataCache'[m] = [has |-> TRUE, v |-> calls'[c].task.ret, t |-> now + 3600]

\* caller c's set on the transaction cache puts the entry there in this step
TransactionSetBy(c, m) ==
    /\ Starts(c, "txset") /\ calls'[c].mint = m
    /\ transactionCache'[m] = [has |-> TRUE, v |-> calls'[c].task.ret, t |-> now + 600]

C18_Gets ==
    \A c \in Callers :
        /\ Starts(c, "txget") =>
            LET e == transactionCache[calls'[c].mint]
            IN  /\ (e.has /\ now > e.t) => ~calls'[c].task.hit
                /\ (e.has /\ now < e.t) =>
                        (calls'[c].task.hit /\ calls'[c].task.ret = e.v)
                /\ ~e.has => ~calls'[c].task.hit
        /\ Starts(c, "price") =>
            LET e == priceCache[calls'[c].mint]
            IN  /\ (e.has /\ now > e.t) =>
                        (~calls'[c].task.hit /\ calls'[c].task.pc = "src")
                /\ (e.has /\ now < e.t) =>
                        (calls'[c].task.hit /\ calls'[c].task.price = e.v)
                /\ ~e.has => ~calls'[c].task.hit
        /\ Starts(c, "eligible") =>
            LET e == tokenMetadataCache[calls'[c].mint]
            IN  /\ (e.has /\ now > e.t) =>
                        (~calls'[c].task.hit /\ calls'[c].task.pc = "wait")
                /\ (e.has /\ now < e.t) =>
                        (calls'[c].task.hit /\ calls'[c].task.ret = e.v)
                /\ ~e.has => ~calls'[c].task.hit

\* an entry changes only by a set, which restarts its window, or by the
\* deletion of an expired entry; a step on one cache leaves the others alone
C18_Sets ==
    /\ \A m \in Mints :
        /\ priceCache'[m] # priceCache[m] =>
                \/ Expired(priceCache[m], priceCache'[m])
                \/ \E c \in Callers : PriceSetBy(c, m)
        /\ tokenMetadataCache'[m] # tokenMetadataCache[m] =>
                \/ Expired(tokenMetadataCache[m], tokenMetadataCache'[m])
                \/ \E c \in Callers : MetaSetBy(c, m)
        /\ transactionCache'[m] # transactionCache[m] =>
                \/ Expired(transactionCache[m], transactionCache'[m])
                \/ \E c \in Callers : TransactionSetBy(c, m)
    /\ \A c \in Callers :
        /\ (PriceReturnsTo(c) /\ ~calls[c].task.hit /\ calls'[c].task.price > 0)
                => PriceSetBy(c, calls[c].mint)
        /\ (SignalsResolveFor(c) /\ ~calls'[c].task.threw) => MetaSetBy(c, calls[c].mint)
        /\ Starts(c, "txset") => TransactionSetBy(c, calls'[c].mint)
    /\ priceCache' # priceCache =>
            (tokenMetadataCache' = tokenMetadataCache /\ transactionCache' = transactionCache)
    /\ tokenMetadataCache' # tokenMetadataCache =>
            (priceCache' = priceCache /\ transactionCache' = transactionCache)
    /\ transactionCache' # transactionCache =>
            (priceCache' = priceCache /\ tokenMetadataCache' = tokenMetadataCache)
    /\ now' # now => (/\ priceCache' = priceCache
                      /\ tokenMetadataCache' = tokenMetadataCache
                      /\ transactionCache' = transactionCache)

C18_Windows ==
    \A m \in Mints :
        /\ priceCache[m].has => priceCache[m].t <= now + 300
        /\ tokenMetadataCache[m].has => tokenMetadataCache[m].t <= now + 3600
        /\ transactionCache[m].has => transactionCache[m].t <= now + 600

C18_TtlWindows == []C18_Windows /\ [][C18_Gets /\ C18_Sets]_vars

\* at 3600 s a price call has missed and set the price entry again, while an
\* eligibility call is served the metadata entry set at time 0 and the
\* transaction cache holds an entry set at 3300 s
C18_Witness ==
    /\ now = 3600
    /\ transactionCache["A"] = [has |-> TRUE, v |-> TRUE, t |-> 3900]
    /\ calls[1].op = "price" /\ ~calls[1].task.hit /\ calls[1].task.price = 3
    /\ priceCache["A"] = [has |-> TRUE, v |-> 3, t |-> 3900]
    /\ calls[2].op = "eligible" /\ calls[2].task.hit /\ calls[2].task.evals = 0
    /\ ~calls[2].task.ret
    /\ tokenMetadataCache["A"] = [has |-> TRUE, v |-> FALSE, t |-> 3600]

----------------------------------------------------------------------------
(* C19: under any interleaving of concurrent calculateGains, _getTokenPrice *)
(* and _isTradableMemeToken calls (same or different wallets, a mint held   *)
(* twice in one wallet) every price-cache entry is a positive price that a  *)
(* source returned for the mint, every metadata-cache entry is the          *)
(* two-of-three result of the mint's signals, and every call returns what   *)
(* it returns when run alone against the same external data.                *)

\* what _isTradableMemeToken returns when run alone
AloneEligible(mint) ==
    /\ \A s \in Signals : sig[s][mint] # "throws"
    /\ TwoOfThree(SignalsOf(mint))

\* the record calculateGains builds for holding i when run alone
AloneRecord(r, i) ==
    LET h == holdings[r][i]
        key == CostKey(reqAddr[r].text, h.mint)
        cost == IF key \in DOMAIN costFile.data THEN costFile.data[key] ELSE 0
    IN  [token |-> h.mint, currentPrice |-> FreshPrice(h.mint), amount |-> h.uiAmount,
         costBasis |-> cost, totalValue |-> FreshPrice(h.mint) * h.uiAmount,
         unrealizedGain |-> FreshPrice(h.mint) * h.uiAmount - cost]

AloneKept(r) ==
    {i \in DOMAIN holdings[r] : FreshPrice(holdings[r][i].mint) * holdings[r][i].uiAmount > 0}

C19_RacesHarmless ==
    /\ \A m \in Mints :
        /\ priceCache[m].has =>
                /\ priceCache[m].v > 0
                /\ \E s \in Sources : srcAns[s][m] = Quote(priceCache[m].v)
        /\ tokenMetadataCache[m].has =>
                /\ \A s \in Signals : sig[s][m] # "throws"
                /\ tokenMetadataCache[m].v = TwoOfThree(SignalsOf(m))
    /\ \A c \in Callers :
        /\ (calls[c].op = "price" /\ calls[c].task.pc # "src") =>
                calls[c].task.price = FreshPrice(calls[c].mint)
        /\ (calls[c].op = "eligible" /\ calls[c].task.pc = "done") =>
                calls[c].task.ret = AloneEligible(calls[c].mint)
    /\ \A r \in Reqs :
        /\ \A i \in DOMAIN eligTasks[r] :
                eligTasks[r][i].pc = "done" =>
                    eligTasks[r][i].ret = AloneEligible(holdings[r][i].mint)
        /\ Responded(r) =>
                /\ outcome[r].success
                /\ Len(outcome[r].data) = Cardinality(AloneKept(r))
                /\ \A k \in DOMAIN outcome[r].data :
                        \E i \in AloneKept(r) : outcome[r].data[k] = AloneRecord(r, i)

\* both requests missed the cache for the same mint and fetched its price, the
\* second read the store while the first was writing it, a direct call was
\* served the price entry one of them wrote, and all agree
C19_Witness ==
    /\ Responded(1) /\ Responded(2)
    /\ reqAddr[1] # reqAddr[2]
    /\ Len(holdings[1]) = 2
    /\ \A i \in {1, 2} : ~gainTasks[1][i].hit /\ gainTasks[1][i].price = 3
    /\ ~gainTasks[2][1].hit /\ gainTasks[2][1].price = 3
    /\ gainTasks[1][1].found = "corrupt" /\ gainTasks[1][1].wrote
    /\ gainTasks[2][1].size = 1 /\ gainTasks[2][1].text.status = "corrupt"
    /\ gainTasks[2][1].found = "corrupt" /\ gainTasks[2][1].wrote
    /\ costFile.status = "ok"
    /\ \A r \in Reqs : \A i \in DOMAIN eligTasks[r] : eligTasks[r][i].ret
    /\ tokenMetadataCache["A"].has /\ tokenMetadataCache["A"].v
    /\ Len(outcome[1].data) = 2 /\ Len(outcome[2].data) = 1
    /\ calls[1].op = "price" /\ calls[1].task.hit /\ calls[1].task.price = 3

----------------------------------------------------------------------------
(* C20: when _isTradableMemeToken returns false because a signal raised,    *)
(* nothing is written to the metadata cache, so a later call for the mint   *)
(* that finds no live entry evaluates the three signals again; every entry  *)
(* the metadata cache gets is the result of three signals that answered.    *)

Raised(seen) == \E s \in 1..3 : seen[s] = "throws"

C20_Step ==
    /\ \A c \in Callers :
        /\ (SignalsResolveFor(c) /\ Raised(calls[c].task.seen)) =>
                /\ calls'[c].task.ret = FALSE
                /\ tokenMetadataCache' = tokenMetadataCache
        /\ (Starts(c, "eligible") /\ ~MetaLive(calls'[c].mint)) =>
                /\ calls'[c].task.pc = "wait"
                /\ calls'[c].task.evals = 3
                /\ calls'[c].task.seen = SignalsOf(calls'[c].mint)
    /\ \A m \in Mints :
        (tokenMetadataCache'[m] # tokenMetadataCache[m] /\ tokenMetadataCache'[m].has) =>
            \E c \in Callers :
                /\ SignalsResolveFor(c) /\ calls[c].mint = m
                /\ ~Raised(calls[c].task.seen)
                /\ tokenMetadataCache'[m].v = TwoOfThree(calls[c].task.seen)

C20_FailureNotCached == [][C20_Step]_vars

\* one call returned false after a raising signal and left no entry; the next
\* call for the same mint evaluated the signals again and cached their result
C20_Witness ==
    /\ calls[1].op = "eligible" /\ calls[2].op = "eligible"
    /\ calls[1].mint = calls[2].mint
    /\ calls[1].task.pc = "done" /\ calls[2].task.pc = "done"
    /\ calls[1].task.seen = <<"true", "true", "throws">>
    /\ ~calls[1].task.hit /\ ~calls[1].task.ret
    /\ ~calls[2].task.hit /\ calls[2].task.evals = 3
    /\ calls[2].task.seen = <<"true", "true", "false">>
    /\ calls[2].task.ret
    /\ tokenMetadataCache[calls[1].mint].has /\ tokenMetadataCache[calls[1].mint].v

====
